---------------------------- MODULE Spec2Model ----------------------------
(***************************************************************************)
(* A model of BathymetryDownloader (src/download_module.py): one run of    *)
(* the worker thread: planning, the single or the tiled mosaic fetch, the  *)
(* classification (TID) grid fetch, masking, reprojection and the writes,  *)
(* with cancel() called from the caller's thread at any moment.            *)
(*                                                                         *)
(* The pixel grid is scaled down: tile_max_size (2000 in the source),      *)
(* tile_overlap (5) and max_size (14000) are small numbers here, so that a *)
(* canvas of a few cells already needs several tiles; every formula is     *)
(* stated in terms of these names.                                         *)
(***************************************************************************)
EXTENDS Integers, Sequences, FiniteSets, TLC

\* ------------------------------------------------------------- bounds
\* self.tile_max_size (scaled)
tile_max_size == 3
\* self.tile_overlap (scaled)
tile_overlap == 2
\* max_size, the constructor's argument (scaled)
max_size == 4
\* the largest canvas edge, in pixels, a request asks for
MaxDim == 6

\* ------------------------------------------------------------ helpers
Min(a, b) == IF a <= b THEN a ELSE b
Max(a, b) == IF a >= b THEN a ELSE b

\* int(np.ceil(a / b)) for a >= 0, b > 0
CeilDiv(a, b) == (a + b - 1) \div b

\* The float sentinel np.nan as a cell value; no data value reaches it.
NaN == 0 - 2^20
IsNaN(v) == v = NaN

\* Python's None for an optional number: <<>> is None, <<v>> is v.
None == <<>>
Some(v) == <<v>>

Last(s) == s[Len(s)]

\* Cells (row, column) of an h x w array, row-major like numpy.
CellsOf(h, w) == (0 .. h - 1) \X (0 .. w - 1)

\* An array: shape, cells and element type (numpy dtype). warped marks a
\* buffer resampled by rasterio.warp.reproject.
Array(h, w, cells, dtype) ==
    [h |-> h, w |-> w, cells |-> cells, dtype |-> dtype, warped |-> FALSE]
NoArray == Array(0, 0, <<>>, "none")
Full(h, w, v, dtype) == Array(h, w, [g \in CellsOf(h, w) |-> v], dtype)

\* ------------------------------------------------ tile grid (1 axis)
\* The x and the y axis are computed by the same expressions in the code.
TilesAlong(total) == CeilDiv(total, tile_max_size)
\* Mutant: the tile starts where its overlap does.
tile_start_at_overlap(i) == Max(0, i * tile_max_size - tile_overlap)
tile_start(i) == i * tile_max_size
\* Mutant: the last tile is not cut at the canvas edge.
tile_end_unclamped(i, total) == tile_start(i) + tile_max_size
tile_end(i, total) == Min(tile_start(i) + tile_max_size, total)
overlap_start(i) == Max(0, tile_start(i) - tile_overlap)
\* Mutant: the margin is not cut at the canvas edge.
overlap_end_unclamped(i, total) == tile_end(i, total) + tile_overlap
overlap_end(i, total) == Min(total, tile_end(i, total) + tile_overlap)


\* ------------------------------------------------- request and service
Modes == {"combined", "bathymetry_only", "land_only",
          "direct_measurements_only", "direct_unknown_measurements_only"}
MaskedModes == Modes \ {"combined"}

\* What __init__ reads in base_url: "GEBCO", "2025" and "TID"; "GEBCO" and
\* "2025" without "TID"; anything else.
Sources == {"TID", "GEBCO2025", "other"}

\* Element types a typed-raster response carries (src.dtypes[0]).
DTypes == {"int8", "int16", "float32"}
IsIntegerDType(d) == d \in {"int8", "int16"}

\* Classification codes of the TID grid the claims name.
Codes == {0, 5, 10, 15, 20, 21, 44, 70}

VARIABLES
    req,             \* the constructor's arguments (never assigned again)
    env,             \* how the remote services answer in this run
    order,           \* the order tiles are applied in, when it is not the loop's
    pc,              \* where run() stands
    outcome,         \* "running", or how run() returned
    cancelled,       \* self.cancelled
    preserve_int8,   \* self._preserve_int8
    preserve_int16,  \* self._preserve_int16
    img_array,       \* the mosaic (the canvas of a tiled run)
    source_nodata,   \* the declared nodata kept for the writer
    tile_x, tile_y,  \* loop counters of the tile loop being run
    tile_num,        \* tiles begun
    tid_array,       \* the classification grid, NoArray before it is fetched
    arrays_to_write, \* (mode, path, array) left to write, in order
    written_paths,   \* paths written so far
    progress,        \* values emitted on the progress signal
    status,          \* messages emitted on the status signal (their kinds)
    errors,          \* messages emitted on the error signal (their kinds)
    finished,        \* payloads emitted on the finished signal
    requests,        \* network requests issued
    responses,       \* what each answered
    files            \* files on disk, in the order written

vars == <<req, env, order, pc, outcome, cancelled, preserve_int8, preserve_int16,
          img_array, source_nodata, tile_x, tile_y, tile_num, tid_array,
          arrays_to_write, written_paths, progress, status, errors, finished,
          requests, responses, files>>

\* Variables of the worker other than its position and the signals.
data == <<preserve_int8, preserve_int16, img_array, source_nodata, tile_x,
          tile_y, tile_num, tid_array, arrays_to_write, written_paths, files>>

width == req.width
height == req.height

\* ------------------------------------------------------------ planning
\* Mutant: an edge of exactly max_size is rejected too.
SizeExceeded_at_limit ==
    ~req.use_tile_download /\ (width >= max_size \/ height >= max_size)

\* Line 78: the size check.
SizeExceeded ==
    ~req.use_tile_download /\ (width > max_size \/ height > max_size)

\* Mutant: tiles whenever an edge is above tile_max_size, asked for or not.
needs_tiling_unasked == width > tile_max_size \/ height > tile_max_size

\* Line 91.
needs_tiling ==
    req.use_tile_download /\ (width > tile_max_size \/ height > tile_max_size)

tiles_x == TilesAlong(width)
tiles_y == TilesAlong(height)
total_tiles == tiles_x * tiles_y

\* The tile after (tx, ty) in `for tile_y ...: for tile_x ...:`.
NextTile(tx, ty) ==
    IF tx + 1 < tiles_x THEN <<tx + 1, ty>> ELSE <<0, ty + 1>>

\* Pixel rectangles <<x0, y0, x1, y1>>, half open.
CoreRect(tx, ty) ==
    <<tile_start(tx), tile_start(ty), tile_end(tx, width), tile_end(ty, height)>>
FetchRect(tx, ty) ==
    <<overlap_start(tx), overlap_start(ty),
      overlap_end(tx, width), overlap_end(ty, height)>>
WholeRect == <<0, 0, width, height>>
RectW(r) == r[3] - r[1]
RectH(r) == r[4] - r[2]
InRect(g, r) == r[2] <= g[1] /\ g[1] < r[4] /\ r[1] <= g[2] /\ g[2] < r[3]

\* Line 74: the cell size in world units when none is given.
pixel_size == 4

\* Lines 29 and 62-75: self.bbox as (xmin, ymin, xmax, ymax); width and height
\* are its extent divided by the cell size.
bbox == <<100, 200, 100 + width * pixel_size, 200 + height * pixel_size>>

\* Lines 550-551 and 760-761.
pixel_size_x == (bbox[3] - bbox[1]) \div width
pixel_size_y == (bbox[4] - bbox[2]) \div height

\* Lines 586-590: the world bounds of a pixel rectangle, as the "bbox"
\* parameter lists them; for the whole region this is self.bbox (lines 114
\* and 737).
WorldBounds(rect) ==
    <<bbox[1] + rect[1] * pixel_size_x,
      bbox[2] + (height - rect[4]) * pixel_size_y,
      bbox[1] + rect[3] * pixel_size_x,
      bbox[2] + (height - rect[2]) * pixel_size_y>>

\* Lines 773-780: the "bbox" parameter of one tile of the classification
\* grid, f"{bx0},{by0},{bx1},{by1}" with by0 the north and by1 the south.
TidTileBounds(rect) ==
    <<bbox[1] + rect[1] * pixel_size_x,
      bbox[4] - rect[2] * pixel_size_y,
      bbox[1] + rect[3] * pixel_size_x,
      bbox[4] - rect[4] * pixel_size_y>>

Request(svc, rect, fmt) ==
    [svc |-> svc, rect |-> rect, bbox |-> WorldBounds(rect),
     size |-> <<RectW(rect), RectH(rect)>>, format |-> fmt]

\* Lines 779-784: the request for one tile of the classification grid.
TidTileRequest(rect) ==
    [Request("tid", rect, "tiff") EXCEPT !.bbox = TidTileBounds(rect)]

\* ------------------------------------------------------- signals, ends
Emit(log, v) == Append(log, v)

Return(how) == pc' = "done" /\ outcome' = how

\* Mutant: the error is emitted and the run goes on where it stands.
Fail_without_return(kind) ==
    /\ errors' = Emit(errors, kind)
    /\ UNCHANGED <<pc, outcome>>

\* self.error.emit(...); return
Fail(kind) ==
    /\ errors' = Emit(errors, kind)
    /\ Return("error")

\* Mutant: the flag is seen and the run stays where it stands.
Stop_without_return == UNCHANGED <<pc, outcome, errors, finished>>

\* if self.cancelled: return
Stop ==
    /\ Return("cancelled")
    /\ UNCHANGED <<errors, finished>>

\* Mutant: a call flips the flag.
Cancel_toggles ==
    /\ cancelled' = ~cancelled
    /\ UNCHANGED <<req, env, order, pc, outcome, data, progress, status, errors,
                   finished, requests, responses>>

\* cancel(), called from the caller's thread at any time.
Cancel ==
    /\ cancelled' = TRUE
    /\ UNCHANGED <<req, env, order, pc, outcome, data, progress, status, errors,
                   finished, requests, responses>>

\* Lines 59-134: the size, the choice of path, and the first steps of it.
Plan ==
    /\ pc = "run"
    /\ UNCHANGED <<req, env, order, cancelled, preserve_int8, preserve_int16,
                   source_nodata, tile_x, tile_y, tile_num, tid_array,
                   arrays_to_write, written_paths, requests, responses, files>>
    /\ IF SizeExceeded
         THEN /\ Fail("size")
              /\ UNCHANGED <<progress, status, finished, img_array>>
       ELSE IF needs_tiling
         THEN \* _download_tiled, lines 541-561
              /\ status' = Emit(status, "tiles")
              /\ progress' = Emit(progress, 10)
              /\ img_array' = Full(height, width, NaN, "float32")
              /\ pc' = "t_poll"
              /\ UNCHANGED <<outcome, errors, finished>>
       ELSE IF cancelled
         THEN \* lines 101-105
              /\ status' = Emit(status, "requesting")
              /\ progress' = Emit(progress, 10)
              /\ Stop
              /\ UNCHANGED img_array
       ELSE   \* lines 101-126
              /\ status' = Emit(Emit(status, "requesting"), "downloading")
              /\ progress' = Emit(Emit(progress, 10), 30)
              /\ pc' = "s_poll"
              /\ UNCHANGED <<outcome, errors, finished, img_array>>

\* ------------------------------------------------ what a service answers
\* How a request is answered: the typed raster decodes ("tiff"); rasterio
\* raises and PIL reads the same bytes ("tiff_pil"); the body is no TIFF and
\* PIL reads it ("image"); no decoder reads it ("undecodable"); status 500;
\* another error status; no answer (connection error, timeout).
OkKinds == {"tiff", "tiff_pil", "image"}
FailKinds == {"undecodable", "http500", "http_error", "network_error"}

\* Where a typed raster holds its declared nodata: nowhere, on the cells of
\* the tile's core, or on the cells of its overlap margin.
GapKinds == {"none", "core", "margin"}

Index(g) == g[1] * width + g[2]
\* The value the service holds for cell g of the canvas.
Terrain(g) == env.base + Index(g)
\* The grey level a plain image shows there.
Luma(g) == Index(g) % 256

InGap(gap, g, core) ==
    \/ gap = "core" /\ InRect(g, core)
    \/ gap = "margin" /\ ~InRect(g, core)

\* The band of a typed raster answering a request for `rect`, indexed from
\* the rectangle's top left corner like tile_array.
RasterBand(rect, core, gap, shift) ==
    [l \in CellsOf(RectH(rect), RectW(rect)) |->
        LET g == <<rect[2] + l[1], rect[1] + l[2]>>
        IN  IF InGap(gap, g, core) THEN env.nodata[1] ELSE Terrain(g) + shift]

\* np.array(img, dtype=np.float32) of a plain image answering it.
ImageBand(rect) ==
    [l \in CellsOf(RectH(rect), RectW(rect)) |->
        Luma(<<rect[2] + l[1], rect[1] + l[2]>>)]

\* The answers the service of this run may give to a mosaic request.
Gaps == IF env.gaps /\ env.nodata # None THEN GapKinds ELSE {"none"}
Shifts == IF env.shifts THEN {0, 8} ELSE {0}
Answers ==
    [kind : env.decodes, gap : Gaps, shift : Shifts]
        \cup [kind : FailKinds, gap : {"none"}, shift : {0}]
\* The answers to the retry with format png: never a typed raster.
RetryAnswers ==
    [kind : {"image"} \cup FailKinds, gap : {"none"}, shift : {0}]

\* Lines 166 and 625: src.dtypes[0] of the typed raster in answer number k.
DTypeOf(k) == IF k = 1 THEN env.dtype ELSE env.later

\* np.where(a == v, np.nan, a)
MaskEq(cells, v) ==
    [g \in DOMAIN cells |-> IF cells[g] = v THEN NaN ELSE cells[g]]

\* ---------------------------------------------- decoding, single request
\* Lines 171-197: the declared nodata the writer gets, and the masked band.
SingleNodata(nd) ==
    IF nd = None THEN None
    ELSE IF (preserve_int16 \/ preserve_int8) /\ nd[1] = 0 THEN None
    ELSE nd
\* Mutant: a declared nodata of 0 is masked whatever the source.
SingleMasked_zero_too(band, nd) ==
    IF nd = None THEN band ELSE MaskEq(band, nd[1])
SingleMasked(band, nd) ==
    IF nd = None THEN band
    ELSE IF (preserve_int16 \/ preserve_int8) /\ nd[1] = 0 THEN band
    ELSE MaskEq(band, nd[1])

\* Lines 214-221 and 641-643: the flags after a typed raster of element
\* type d, as a pair <<_preserve_int8, _preserve_int16>>.
\* Mutant: the flags follow the raster even when __init__ set one.
SingleFlags_unguarded(d) ==
    IF IsIntegerDType(d) THEN <<d = "int8", d = "int16">> ELSE <<FALSE, FALSE>>
SingleFlags(d) ==
    IF ~preserve_int8 /\ ~preserve_int16
      THEN IF IsIntegerDType(d) THEN <<d = "int8", d = "int16">>
           ELSE <<FALSE, FALSE>>
      ELSE <<preserve_int8, preserve_int16>>
\* Mutant: an integer raster sets the flags whatever they are.
TiledFlags_unguarded(d) ==
    IF IsIntegerDType(d)
      THEN <<d = "int8", d = "int16">>
      ELSE <<preserve_int8, preserve_int16>>
TiledFlags(d) ==
    IF IsIntegerDType(d) /\ ~preserve_int8 /\ ~preserve_int16
      THEN <<d = "int8", d = "int16">>
      ELSE <<preserve_int8, preserve_int16>>

\* ------------------------------------------------- decoding, tiled run
\* Lines 627-631.
TiledNodata(nd) ==
    IF nd # None /\ source_nodata = None
      THEN IF (preserve_int16 \/ preserve_int8) /\ nd[1] = 0 THEN None ELSE nd
      ELSE source_nodata
\* Lines 634-647: the same masking for integer and float bands.
TiledMasked(band, sn) ==
    IF sn # None /\ sn[1] # 0 THEN MaskEq(band, sn[1]) ELSE band

\* Mutant: a cell the canvas does not hold yet is not taken from the tile.
Combine_both_only(old, new) ==
    IF ~IsNaN(old) /\ ~IsNaN(new) THEN (old + new) \div 2 ELSE old

\* Lines 697-704, one cell: the old canvas value and the tile's.
Combine(old, new) ==
    IF ~IsNaN(old) /\ ~IsNaN(new) THEN (old + new) \div 2
    ELSE IF IsNaN(old) /\ ~IsNaN(new) THEN new
    ELSE old

\* Lines 665-668: the rectangle of the canvas a tile is placed on.
PlaceRect(tx, ty) == CoreRect(tx, ty)

\* Lines 671-680: tile_data, the part of tile_array placed there, as the
\* cell of tile_array that lands on cell g of the canvas.
TileCell(tx, ty, g) ==
    LET fr == FetchRect(tx, ty)
        pr == PlaceRect(tx, ty)
        tile_offset_x == tile_start(tx) - fr[1]
        tile_offset_y == tile_start(ty) - fr[2]
    IN  <<tile_offset_y + (g[1] - pr[2]), tile_offset_x + (g[2] - pr[1])>>

\* numpy cuts a slice that leaves the array short; the boolean masks then
\* have another shape than output_region and indexing raises.
PlaceFits(tx, ty, band) ==
    \A g \in CellsOf(height, width) :
        InRect(g, PlaceRect(tx, ty)) => TileCell(tx, ty, g) \in DOMAIN band

\* Lines 684-707: the canvas after tile (tx, ty) is placed.
ApplyTile(canvas, tx, ty, band) ==
    [g \in DOMAIN canvas |->
        IF InRect(g, PlaceRect(tx, ty))
          THEN Combine(canvas[g], band[TileCell(tx, ty, g)])
          ELSE canvas[g]]

\* Mutant: the values are cut at the maximum only.
Clip_above_only(v, lo, hi) == Min(v, hi)
Clip(v, lo, hi) == IF v < lo THEN lo ELSE IF v > hi THEN hi ELSE v

\* .astype(np.int8) and .astype(np.int16) of a whole number: the low bits,
\* as a value of lo .. hi.
AsType(v, lo, hi) == ((v - lo) % (hi - lo + 1)) + lo

\* Lines 717-729: np.nan_to_num(nan=lo), round, clip, astype.
ToInt(cells, lo, hi) ==
    [g \in DOMAIN cells |->
        IF IsNaN(cells[g]) THEN lo ELSE AsType(Clip(cells[g], lo, hi), lo, hi)]

\* ------------------------------------------------ single request, fetch
\* Lines 128-137: the poll before the request, and the request.
SPoll ==
    /\ pc = "s_poll"
    /\ UNCHANGED <<req, env, order, cancelled, data, progress, status, responses>>
    /\ IF cancelled
         THEN Stop /\ UNCHANGED requests
         ELSE /\ requests' = Append(requests, Request("mosaic", WholeRect, "tiff"))
              /\ pc' = "s_get"
              /\ UNCHANGED <<outcome, errors, finished>>

\* Mutant: every exception of the request goes to the retry.
Retried_whatever_raised(kind) ==
    kind \in {"undecodable", "http_error", "network_error"}

\* Lines 238-265: the failures that reach `except Exception` and its retry,
\* the clauses for HTTPError and RequestException standing before it.
Retried(kind) == kind = "undecodable"

\* Lines 137-270: the answer to the request, decoded.
SGet ==
    /\ pc = "s_get"
    /\ \E a \in Answers :
        /\ responses' = Append(responses, a)
        /\ UNCHANGED <<req, env, order, cancelled, tile_x, tile_y, tile_num, tid_array,
                       arrays_to_write, written_paths, progress, files>>
        /\ CASE a.kind = "tiff" ->
                  \* lines 164-221
                  /\ img_array' = Array(height, width,
                        SingleMasked(RasterBand(WholeRect, WholeRect, a.gap, a.shift),
                                     env.nodata), "float32")
                  /\ source_nodata' = SingleNodata(env.nodata)
                  /\ preserve_int8' = SingleFlags(DTypeOf(Len(responses')))[1]
                  /\ preserve_int16' = SingleFlags(DTypeOf(Len(responses')))[2]
                  /\ pc' = "post"
                  /\ UNCHANGED <<outcome, errors, finished, requests, status>>
             [] a.kind = "tiff_pil" ->
                  \* lines 222-226: PIL reads the same bytes, nothing is masked
                  /\ status' = Emit(status, "trying_pil")
                  /\ img_array' = Array(height, width,
                        RasterBand(WholeRect, WholeRect, a.gap, a.shift), "float32")
                  /\ pc' = "post"
                  /\ UNCHANGED <<outcome, errors, finished, requests,
                                 source_nodata, preserve_int8, preserve_int16>>
             [] a.kind = "image" ->
                  \* lines 227-236: a coloured image is turned to grey, with
                  \* a warning
                  /\ \E rgb \in BOOLEAN :
                        status' = IF rgb THEN Emit(status, "rgb_warning") ELSE status
                  /\ img_array' = Array(height, width, ImageBand(WholeRect), "float32")
                  /\ pc' = "post"
                  /\ UNCHANGED <<outcome, errors, finished, requests,
                                 source_nodata, preserve_int8, preserve_int16>>
             [] Retried(a.kind) ->
                  \* lines 265-270: PIL raises too; the request goes out again
                  \* with format png, and self.cancelled is not read
                  /\ status' = Emit(status, "trying_png")
                  /\ requests' = Append(requests, Request("mosaic", WholeRect, "png"))
                  /\ pc' = "s_retry"
                  /\ UNCHANGED <<outcome, errors, finished, img_array,
                                 source_nodata, preserve_int8, preserve_int16>>
             [] a.kind = "http500" ->
                  \* lines 140-155
                  /\ Fail("http500")
                  /\ UNCHANGED <<finished, requests, img_array, source_nodata,
                                 preserve_int8, preserve_int16, status>>
             [] a.kind = "http_error" /\ ~Retried(a.kind) ->
                  \* lines 157, 238-259
                  /\ Fail("http")
                  /\ UNCHANGED <<finished, requests, img_array, source_nodata,
                                 preserve_int8, preserve_int16, status>>
             [] a.kind = "network_error" /\ ~Retried(a.kind) ->
                  \* lines 260-264
                  /\ Fail("network")
                  /\ UNCHANGED <<finished, requests, img_array, source_nodata,
                                 preserve_int8, preserve_int16, status>>

\* Lines 270-282: the answer to the request with format png.
SRetry ==
    /\ pc = "s_retry"
    /\ \E a \in RetryAnswers :
        /\ responses' = Append(responses, a)
        /\ UNCHANGED <<req, env, order, cancelled, preserve_int8, preserve_int16,
                       source_nodata, tile_x, tile_y, tile_num, tid_array,
                       arrays_to_write, written_paths, progress, requests, files>>
        /\ IF a.kind = "image"
             THEN /\ \E rgb \in BOOLEAN :
                        status' = IF rgb THEN Emit(status, "rgb_warning") ELSE status
                  /\ img_array' = Array(height, width, ImageBand(WholeRect), "float32")
                  /\ pc' = "post"
                  /\ UNCHANGED <<outcome, errors, finished>>
             ELSE /\ Fail("download")
                  /\ UNCHANGED <<finished, img_array, status>>

\* --------------------------------------------------- tiled run, fetch
\* Lines 563-607: the top of one pass of the tile loop.
TPoll ==
    /\ pc = "t_poll"
    /\ tile_y < tiles_y
    /\ UNCHANGED <<req, env, order, cancelled, preserve_int8, preserve_int16,
                   img_array, source_nodata, tile_x, tile_y, tid_array,
                   arrays_to_write, written_paths, responses, files>>
    /\ IF cancelled
         THEN Stop /\ UNCHANGED <<tile_num, progress, status, requests>>
         ELSE /\ tile_num' = tile_num + 1
              /\ progress' = Emit(progress, 10 + (80 * tile_num') \div total_tiles)
              /\ status' = Emit(status, "tile")
              /\ requests' = Append(requests,
                                Request("mosaic", FetchRect(tile_x, tile_y), "tiff"))
              /\ pc' = "t_get"
              /\ UNCHANGED <<outcome, errors, finished>>

\* The band the answer to tile (tx, ty) yields, lines 620-661.
TileBandAt(tx, ty, a) ==
    LET fr == FetchRect(tx, ty)
        core == CoreRect(tx, ty)
    IN  CASE a.kind = "tiff" ->
                TiledMasked(RasterBand(fr, core, a.gap, a.shift),
                            TiledNodata(env.nodata))
          [] a.kind = "tiff_pil" -> RasterBand(fr, core, a.gap, a.shift)
          [] OTHER -> ImageBand(fr)
TileBand(a) == TileBandAt(tile_x, tile_y, a)

\* Lines 607-712: the answer to a tile's request, decoded and placed.
TGet ==
    /\ pc = "t_get"
    /\ \E a \in Answers :
        /\ responses' = Append(responses, a)
        /\ UNCHANGED <<req, env, order, cancelled, tile_num, tid_array, arrays_to_write,
                       written_paths, progress, status, requests, files>>
        /\ IF a.kind \in OkKinds /\ PlaceFits(tile_x, tile_y, TileBand(a))
             THEN /\ img_array' = [img_array EXCEPT
                        !.cells = ApplyTile(@, tile_x, tile_y, TileBand(a))]
                  /\ source_nodata' =
                        IF a.kind = "tiff" THEN TiledNodata(env.nodata)
                        ELSE source_nodata
                  /\ preserve_int8' =
                        IF a.kind = "tiff" THEN TiledFlags(DTypeOf(Len(responses')))[1]
                        ELSE preserve_int8
                  /\ preserve_int16' =
                        IF a.kind = "tiff" THEN TiledFlags(DTypeOf(Len(responses')))[2]
                        ELSE preserve_int16
                  /\ tile_x' = NextTile(tile_x, tile_y)[1]
                  /\ tile_y' = NextTile(tile_x, tile_y)[2]
                  /\ pc' = "t_poll"
                  /\ UNCHANGED <<outcome, errors, finished>>
             ELSE \* lines 609-612 and 709-712
                  /\ Fail(IF a.kind = "http500" THEN "http500" ELSE "tile")
                  /\ UNCHANGED <<finished, img_array, source_nodata,
                                 preserve_int8, preserve_int16, tile_x, tile_y>>

\* Lines 714-731: after the last tile.
TFinish ==
    /\ pc = "t_poll"
    /\ tile_y >= tiles_y
    /\ progress' = Emit(progress, 90)
    /\ status' = Emit(status, "reassembling")
    /\ img_array' =
          IF preserve_int8
            THEN [img_array EXCEPT !.cells = ToInt(@, -128, 127), !.dtype = "int8"]
          ELSE IF preserve_int16
            THEN [img_array EXCEPT !.cells = ToInt(@, -32768, 32767),
                                   !.dtype = "int16"]
          ELSE img_array
    /\ tile_x' = 0
    /\ tile_y' = 0
    /\ pc' = "post"
    /\ UNCHANGED <<req, env, order, outcome, cancelled, preserve_int8, preserve_int16,
                   source_nodata, tile_num, tid_array, arrays_to_write,
                   written_paths, errors, finished, requests, responses, files>>

\* ------------------------------------------------- classification grid
\* Line 306.
need_tid == \E i \in DOMAIN req.output_requests : req.output_requests[i] \in MaskedModes

\* Mutant: the grid is fetched whenever a classification service is known.
FetchesTid_whenever_known == req.tid_url

\* Lines 305-308 and 388: whether this run fetches the classification grid.
FetchesTid ==
    IF req.output_requests # <<>>
      THEN need_tid /\ req.tid_url
      ELSE req.download_mode \in {"bathymetry_only", "land_only"} /\ req.tid_url

\* Line 745: _fetch_tid_grid asks for the whole grid in one request.
TidSingle == width <= tile_max_size /\ height <= tile_max_size

\* Lines 769-772: the rectangle of a tile of the classification grid.
TidRect(tx, ty) ==
    <<tile_start(tx), tile_start(ty), tile_end(tx, width), tile_end(ty, height)>>

\* The classification code the TID service holds for cell g of the canvas.
CodeAt(g) == IF Index(g) % 2 = 0 THEN env.code_a ELSE env.code_b

\* The answers of the classification service: a typed raster, a plain image
\* holding the codes as grey levels, or a failure.
TidAnswers == [kind : {"tiff", "image"} \cup FailKinds]

\* Lines 288-314 and 387-394: progress 50, the polls, and the start of
\* _fetch_tid_grid up to its first request.
Post ==
    /\ pc = "post"
    /\ progress' = Emit(progress, 50)
    /\ UNCHANGED <<req, env, order, cancelled, preserve_int8, preserve_int16,
                   img_array, source_nodata, tile_x, tile_y, tile_num,
                   arrays_to_write, written_paths, responses, files>>
    /\ status' = IF ~cancelled /\ img_array # NoArray /\ FetchesTid
                    THEN Emit(Emit(status, "processing"), "tid")
                    ELSE Emit(status, "processing")
    /\ IF cancelled
         THEN Stop /\ UNCHANGED <<requests, tid_array>>
       ELSE IF img_array = NoArray
         THEN Fail("no_data") /\ UNCHANGED <<finished, requests, tid_array>>
       ELSE IF ~FetchesTid
         THEN /\ pc' = "build"
              /\ UNCHANGED <<outcome, errors, finished, requests, tid_array>>
       ELSE IF TidSingle
         THEN /\ requests' = Append(requests, Request("tid", WholeRect, "tiff"))
              /\ pc' = "tid_get"
              /\ UNCHANGED <<outcome, errors, finished, tid_array>>
       ELSE   \* lines 760-764: the grid, filled with -128
              /\ tid_array' = Full(height, width, -128, "int8")
              /\ pc' = "tid_poll"
              /\ UNCHANGED <<outcome, errors, finished, requests>>

\* Lines 746-757: the answer to the one request.
TidGet ==
    /\ pc = "tid_get"
    /\ \E a \in TidAnswers :
        /\ responses' = Append(responses, a)
        /\ UNCHANGED <<req, env, order, cancelled, preserve_int8, preserve_int16,
                       img_array, source_nodata, tile_x, tile_y, tile_num,
                       arrays_to_write, written_paths, progress, status, requests,
                       files>>
        /\ IF a.kind \in {"tiff", "image"}
             THEN /\ tid_array' = Array(height, width,
                        [g \in CellsOf(height, width) |-> CodeAt(g)],
                        IF a.kind = "tiff" THEN "int8" ELSE "float32")
                  /\ pc' = "build"
                  /\ UNCHANGED <<outcome, errors, finished>>
             ELSE \* lines 790-792, then 313-314
                  /\ Fail("tid")
                  /\ UNCHANGED <<finished, tid_array>>

\* Lines 765-784: the top of one pass of the loop over the grid's tiles.
TidPoll ==
    /\ pc = "tid_poll"
    /\ UNCHANGED <<req, env, order, cancelled, data, progress, status, responses>>
    /\ IF cancelled
         THEN Stop /\ UNCHANGED requests
         ELSE /\ requests' = Append(requests,
                                TidTileRequest(TidRect(tile_x, tile_y)))
              /\ pc' = "tid_tget"
              /\ UNCHANGED <<outcome, errors, finished>>

\* Lines 785-789: the answer to a tile of the grid, placed.
TidTileGet ==
    /\ pc = "tid_tget"
    /\ \E a \in TidAnswers :
        /\ responses' = Append(responses, a)
        /\ UNCHANGED <<req, env, order, cancelled, preserve_int8, preserve_int16,
                       img_array, source_nodata, tile_num, arrays_to_write,
                       written_paths, progress, status, requests, files>>
        /\ IF a.kind = "tiff"
             THEN /\ tid_array' = [tid_array EXCEPT !.cells =
                        [g \in DOMAIN @ |->
                            IF InRect(g, TidRect(tile_x, tile_y)) THEN CodeAt(g) ELSE @[g]]]
                  /\ IF NextTile(tile_x, tile_y)[2] < tiles_y
                       THEN /\ tile_x' = NextTile(tile_x, tile_y)[1]
                            /\ tile_y' = NextTile(tile_x, tile_y)[2]
                            /\ pc' = "tid_poll"
                       ELSE /\ tile_x' = 0
                            /\ tile_y' = 0
                            /\ pc' = "build"
                  /\ UNCHANGED <<outcome, errors, finished>>
             ELSE \* rasterio.open or raise_for_status raises: lines 790-792
                  /\ Fail("tid")
                  /\ UNCHANGED <<finished, tid_array, tile_x, tile_y>>

\* ------------------------------------------------------------- masking
\* Lines 322-330: whether a cell of classification code c is kept.
MaskKeep(mode, c) ==
    CASE mode = "bathymetry_only" -> ~(c = 0)
      [] mode = "land_only" -> ~(c # 0)
      [] mode = "direct_measurements_only" -> ~(c < 10 \/ c > 20)
      [] OTHER -> (c >= 10 /\ c <= 20) \/ c = 44 \/ c = 70

\* Lines 398-403: the same for the run of one output.
SingleMaskKeep(mode, c) ==
    IF mode = "bathymetry_only" THEN ~(c = 0) ELSE ~(c # 0)

\* arr[...] = np.nan on a float32 copy.
Masked(arr, keep) ==
    [arr EXCEPT !.cells = [g \in DOMAIN @ |-> IF keep[g] THEN @[g] ELSE NaN],
                !.dtype = "float32"]

\* Mutant: the outputs share one buffer, and the mask of every listed mode
\* falls on it.
MultiArray_shared(mode) ==
    IF tid_array # NoArray
      THEN Masked(img_array,
             [g \in DOMAIN img_array.cells |->
                \A i \in DOMAIN req.output_requests :
                   req.output_requests[i] \in MaskedModes =>
                      MaskKeep(req.output_requests[i], tid_array.cells[g])])
      ELSE img_array

\* Lines 318-331: the array of one (mode, path) of output_requests.
MultiArray(mode) ==
    IF mode \in MaskedModes /\ tid_array # NoArray
      THEN Masked(img_array, [g \in DOMAIN img_array.cells |->
                                 MaskKeep(mode, tid_array.cells[g])])
      ELSE img_array

\* Lines 388-403: the array of the run of one output.
SingleArray ==
    IF req.download_mode \in {"bathymetry_only", "land_only"} /\ req.tid_url
      THEN Masked(img_array, [g \in DOMAIN img_array.cells |->
                                 SingleMaskKeep(req.download_mode, tid_array.cells[g])])
      ELSE img_array

\* File paths are strings, here sequences of characters: the path of
\* output_requests[i] is PathOf(i), and output_path is PathOf(0).
Digits == <<"0", "1", "2", "3", "4", "5">>
PathOf(i) == <<"f", Digits[i + 1]>>

\* (mode, path, array) for every output of the run.
Outputs ==
    IF req.output_requests # <<>>
      THEN [i \in DOMAIN req.output_requests |->
               [mode |-> req.output_requests[i], path |-> PathOf(i),
                arr |-> MultiArray(req.output_requests[i])]]
      ELSE <<[mode |-> req.download_mode, path |-> PathOf(0), arr |-> SingleArray]>>

\* Lines 343-369 and 417-440: rasterio.warp.reproject resamples the buffer
\* on another grid; its cells are the library's, marked warped here.
Reprojected(arr) == [arr EXCEPT !.warped = TRUE]

\* Lines 349, 422 and 451-456: the messages of this stage.
BuildStatus ==
    LET s1 == IF req.reproject THEN Emit(status, "reprojecting") ELSE status
    IN  IF req.output_requests # <<>> THEN s1 ELSE Emit(s1, "creating")

\* Mutant: the grid is asked for again while the arrays are built.
Build_fetching_grid ==
    /\ pc = "build"
    /\ UNCHANGED <<req, env, order, cancelled, preserve_int8, preserve_int16,
                   img_array, source_nodata, tile_x, tile_y, tile_num,
                   tid_array, written_paths, responses, files>>
    /\ requests' = IF tid_array # NoArray
                      THEN Append(requests, Request("tid", WholeRect, "tiff"))
                      ELSE requests
    /\ arrays_to_write' =
          IF req.reproject
            THEN [i \in DOMAIN Outputs |-> [Outputs[i] EXCEPT !.arr = Reprojected(@)]]
            ELSE Outputs
    /\ progress' = Emit(progress, 70)
    /\ status' = BuildStatus
    /\ pc' = "write"
    /\ UNCHANGED <<outcome, errors, finished>>

\* Lines 316-375 and 395-456: the arrays to write, reprojected when asked.
Build ==
    /\ pc = "build"
    /\ UNCHANGED <<req, env, order, cancelled, preserve_int8, preserve_int16,
                   img_array, source_nodata, tile_x, tile_y, tile_num,
                   tid_array, written_paths, requests, responses, files>>
    /\ \/ /\ arrays_to_write' =
                IF req.reproject
                  THEN [i \in DOMAIN Outputs |->
                          [Outputs[i] EXCEPT !.arr = Reprojected(@)]]
                  ELSE Outputs
          /\ progress' = Emit(progress, 70)
          /\ status' = BuildStatus
          /\ pc' = "write"
          /\ UNCHANGED <<outcome, errors, finished>>
       \/ \* the reprojection raises: line 476
          /\ req.reproject
          /\ status' = Emit(status, "reprojecting")
          /\ Fail("exception")
          /\ UNCHANGED <<arrays_to_write, progress, finished>>

\* -------------------------------------------------------------- writing
\* Lines 489-497: the element type and the default nodata of the file.
OutputDType ==
    IF preserve_int8 THEN "int8" ELSE IF preserve_int16 THEN "int16" ELSE "float32"
DefaultNodata ==
    IF preserve_int8 THEN -128 ELSE IF preserve_int16 THEN -32768 ELSE -9999

\* Line 499: isinstance(source_nodata, (int, np.integer)). rasterio gives
\* src.nodata as a Python float for these element types.
NodataIsInteger(sn) == FALSE

\* Line 504: the array is uint8, or not empty with all of it in 0..255
\* (a comparison with the max or min of an array holding NaN is False).
AllSmall(arr) ==
    \/ arr.dtype = "uint8"
    \/ /\ DOMAIN arr.cells # {}
       /\ \A g \in DOMAIN arr.cells :
             ~IsNaN(arr.cells[g]) /\ arr.cells[g] >= 0 /\ arr.cells[g] <= 255

\* Lines 498-510: the nodata value of the file.
NodataValue(arr, sn) ==
    IF sn # None
      THEN IF (preserve_int8 \/ preserve_int16) /\ NodataIsInteger(sn) THEN sn[1]
           ELSE IF ~(preserve_int8 \/ preserve_int16) THEN sn[1]
           ELSE DefaultNodata
      ELSE IF AllSmall(arr)
             THEN IF preserve_int8 \/ preserve_int16 THEN DefaultNodata ELSE 0
             ELSE DefaultNodata

\* Mutant: the cast without the clip before it.
WriteCell_unclipped(v, nodata_value) ==
    IF IsNaN(v) THEN nodata_value
    ELSE IF preserve_int8 THEN AsType(v, -128, 127)
    ELSE IF preserve_int16 THEN AsType(v, -32768, 32767)
    ELSE v

\* Lines 511-528: one cell of img_array_for_write.
WriteCell(v, nodata_value) ==
    IF IsNaN(v) THEN nodata_value
    ELSE IF preserve_int8 THEN AsType(Clip(v, -128, 127), -128, 127)
    ELSE IF preserve_int16 THEN AsType(Clip(v, -32768, 32767), -32768, 32767)
    ELSE v

\* Lines 481-533: the file _write_geotiff leaves at `path`.
FileOf(out) ==
    LET nodata_value == NodataValue(out.arr, source_nodata)
    IN  [path |-> out.path, mode |-> out.mode, dtype |-> OutputDType,
         nodata |-> nodata_value, h |-> out.arr.h, w |-> out.arr.w,
         warped |-> out.arr.warped,
         cells |-> [g \in DOMAIN out.arr.cells |->
                       WriteCell(out.arr.cells[g], nodata_value)]]

NL == "\n"

\* Mutant: the paths are put one after the other with nothing between.
RECURSIVE Join_unseparated(_)
Join_unseparated(paths) ==
    IF paths = <<>> THEN <<>> ELSE Head(paths) \o Join_unseparated(Tail(paths))

\* Line 385: "\n".join(written_paths).
RECURSIVE Join(_)
Join(paths) ==
    IF paths = <<>> THEN <<>>
    ELSE IF Len(paths) = 1 THEN Head(paths)
    ELSE Head(paths) \o <<NL>> \o Join(Tail(paths))

\* Lines 385 and 474: what finished carries.
FinishedPayload(paths) ==
    IF req.output_requests # <<>> THEN Join(paths) ELSE PathOf(0)

\* Line 380: the message before a write of the list of outputs.
Writing == IF req.output_requests # <<>> THEN Emit(status, "writing") ELSE status

\* Lines 376-386 and 458-474: one pass of the loop over the outputs (the
\* poll, the write), and after the last one progress 100 and finished.
Write ==
    /\ pc = "write"
    /\ arrays_to_write # <<>>
    /\ UNCHANGED <<req, env, order, cancelled, preserve_int8, preserve_int16,
                   img_array, source_nodata, tile_x, tile_y, tile_num,
                   tid_array, requests, responses>>
    /\ IF cancelled
         THEN /\ Stop
              /\ UNCHANGED <<arrays_to_write, written_paths, files, progress, status>>
         ELSE \/ /\ files' = Append(files, FileOf(Head(arrays_to_write)))
                 /\ written_paths' = Append(written_paths, Head(arrays_to_write).path)
                 /\ arrays_to_write' = Tail(arrays_to_write)
                 /\ IF arrays_to_write' = <<>>
                      THEN /\ progress' = Emit(progress, 100)
                           /\ status' = Emit(Writing, "saved")
                           /\ finished' = Emit(finished, FinishedPayload(written_paths'))
                           /\ Return("finished")
                           /\ UNCHANGED errors
                      ELSE /\ status' = Writing
                           /\ UNCHANGED <<pc, outcome, progress, errors, finished>>
              \/ \* rasterio raises while writing: lines 476-477
                 /\ status' = Writing
                 /\ Fail("exception")
                 /\ UNCHANGED <<arrays_to_write, written_paths, files, progress,
                                finished>>

\* --------------------------------------------------------------- runs
\* The service a run talks to when nothing about its answers is varied: a
\* float32 raster that declares no nodata.
PlainService ==
    [dtype |-> "float32", later |-> "float32", nodata |-> None, base |-> 0,
     gaps |-> FALSE,
     shifts |-> FALSE, decodes |-> {"tiff"}, code_a |-> 0, code_b |-> 15]

PlainRequest ==
    [width |-> 1, height |-> 1, use_tile_download |-> TRUE, source |-> "other",
     tid_url |-> FALSE, output_requests |-> <<>>, download_mode |-> "combined",
     reproject |-> FALSE]

\* output_requests as main.py builds it (lines 1293-1383), in its order.
OutputLists ==
    {<<m>> : m \in Modes} \cup {<<"combined", m>> : m \in MaskedModes}
        \cup {<<"bathymetry_only", "land_only">>}
        \cup {<<"bathymetry_only", "land_only", "direct_measurements_only">>}

\* Canvas edges with one tile and with two.
Edges == {1, tile_max_size + 1}

\* Every canvas size, tiled or not.
PlanRuns ==
    {<<[PlainRequest EXCEPT !.width = w, !.height = h, !.use_tile_download = t],
       PlainService>> : w \in 1 .. MaxDim, h \in 1 .. MaxDim, t \in BOOLEAN}

\* Every list of outputs, with and without a classification service and a
\* reprojection.
OutputRuns ==
    {<<[PlainRequest EXCEPT !.width = w, !.use_tile_download = t[1],
                            !.tid_url = t[2], !.reproject = t[3],
                            !.output_requests = o[1], !.download_mode = o[2]],
       PlainService>> :
        w \in Edges, t \in BOOLEAN \X BOOLEAN \X BOOLEAN,
        o \in (OutputLists \X {"combined"}) \cup ({<<>>} \X Modes)}

\* Every mode over every classification code.
MaskRuns ==
    {<<[PlainRequest EXCEPT !.width = w, !.tid_url = TRUE,
                            !.output_requests = o[1], !.download_mode = o[2]],
       [PlainService EXCEPT !.code_a = c[1], !.code_b = c[2]]>> :
        w \in Edges, c \in Codes \X Codes,
        o \in ({<<m>> : m \in Modes} \X {"combined"}) \cup ({<<>>} \X Modes)}

\* Every source against every element type and declared nodata.
PixelRuns ==
    {<<[PlainRequest EXCEPT !.width = w, !.source = s],
       [PlainService EXCEPT !.dtype = d, !.later = d, !.nodata = nd,
                            !.base = b, !.gaps = TRUE, !.decodes = OkKinds]>> :
        w \in Edges, s \in Sources, d \in DTypes,
        nd \in {None, Some(0), Some(-100)}, b \in {0, -60}}

\* A grid of two by two tiles whose answers have gaps.
MosaicRuns ==
    {<<[PlainRequest EXCEPT !.width = tile_max_size + 1,
                            !.height = tile_max_size + 1],
       [PlainService EXCEPT !.nodata = Some(-100), !.gaps = TRUE]>>}

\* An integer source whose service holds values above the type's range, or
\* values below it, at its minimum and above its minimum, and on one cell
\* the nodata it declares.
ClipRuns ==
    {<<[PlainRequest EXCEPT !.width = tile_max_size + 1, !.source = b[1],
                            !.use_tile_download = t],
       [PlainService EXCEPT !.base = b[2], !.nodata = Some(b[2] + 1)]>> :
        b \in {<<"TID", 500>>, <<"GEBCO2025", 40000>>,
               <<"TID", -130>>, <<"GEBCO2025", -32770>>}, t \in BOOLEAN}

\* A grid of two tiles whose second raster has another element type than
\* the first.
MixedRuns ==
    {<<[PlainRequest EXCEPT !.width = tile_max_size + 1, !.source = s],
       [PlainService EXCEPT !.dtype = d[1], !.later = d[2]]>> :
        s \in Sources, d \in {e \in DTypes \X DTypes : e[1] # e[2]}}

Runs ==
    PlanRuns \cup OutputRuns \cup MaskRuns \cup PixelRuns \cup MosaicRuns
        \cup ClipRuns \cup MixedRuns

\* Lines 23-53: the object after __init__.
Init ==
    /\ \E r \in Runs : req = r[1] /\ env = r[2]
    /\ order = <<>>
    /\ pc = "run"
    /\ outcome = "running"
    /\ cancelled = FALSE
    /\ preserve_int8 = (req.source = "TID")
    /\ preserve_int16 = (req.source = "GEBCO2025")
    /\ img_array = NoArray
    /\ source_nodata = None
    /\ tile_x = 0
    /\ tile_y = 0
    /\ tile_num = 0
    /\ tid_array = NoArray
    /\ arrays_to_write = <<>>
    /\ written_paths = <<>>
    /\ progress = <<>>
    /\ status = <<>>
    /\ errors = <<>>
    /\ finished = <<>>
    /\ requests = <<>>
    /\ responses = <<>>
    /\ files = <<>>

Next ==
    \/ Cancel
    \/ Plan
    \/ SPoll
    \/ SGet
    \/ SRetry
    \/ TPoll
    \/ TGet
    \/ TFinish
    \/ Post
    \/ TidGet
    \/ TidPoll
    \/ TidTileGet
    \/ Build
    \/ Write

Spec == Init /\ [][Next]_vars

\* The steps of run(): those of the worker thread. cancel() is the caller's.
Step ==
    \/ Plan
    \/ SPoll
    \/ SGet
    \/ SRetry
    \/ TPoll
    \/ TGet
    \/ TFinish
    \/ Post
    \/ TidGet
    \/ TidPoll
    \/ TidTileGet
    \/ Build
    \/ Write

\* The thread that QThread.start() gives run() keeps running, and every
\* requests.get returns or raises within its timeout=300 (lines 137, 603,
\* 746, 779): a step of run() that can be taken is taken.
SpecLive == Spec /\ WF_vars(Step)

\* ================================================================ claims
Range(q) == {q[i] : i \in DOMAIN q}

\* C1: a run that stopped on observing the cancellation flag has written
\* no output file and has emitted no finished event.
C1_CancelledRunWroteNothing ==
    outcome = "cancelled" => files = <<>> /\ finished = <<>>

\* C2: a run that ended with an error event has left no output file on
\* disk, whichever stage failed.
C2_FailedRunWroteNothing ==
    outcome = "error" => errors # <<>> /\ files = <<>>

\* C3: the values emitted on the progress signal are integers in 0..100
\* and each is at least the one emitted before it.
C3_ProgressMonotone ==
    /\ \A i \in DOMAIN progress : progress[i] \in 0 .. 100
    /\ \A i \in DOMAIN progress : i > 1 => progress[i - 1] <= progress[i]

\* C4: with tiling disabled and a width or height above max_size, run()
\* emits exactly one error, the size error, and issues no request and
\* writes no file; with both within max_size, or with tiling enabled, the
\* size error is never emitted.
C4_SizeLimit ==
    pc # "run" =>
        IF ~req.use_tile_download /\ (req.width > max_size \/ req.height > max_size)
          THEN /\ errors = <<"size">>
               /\ outcome = "error"
               /\ requests = <<>>
               /\ files = <<>>
          ELSE "size" \notin Range(errors)

C4_Witness ==
    /\ pc = "done"
    /\ errors = <<"size">>
    /\ req.width > max_size
    /\ req.height <= max_size

\* The requests a run plans for the mosaic, in order: the fetch rectangle
\* of every tile row by row when tiling is enabled and an edge is above
\* tile_max_size, else the one request for the whole canvas.
PlannedRequests ==
    IF req.use_tile_download
          /\ (req.width > tile_max_size \/ req.height > tile_max_size)
      THEN LET nx == CeilDiv(req.width, tile_max_size)
               ny == CeilDiv(req.height, tile_max_size)
           IN  [k \in 1 .. nx * ny |->
                  Request("mosaic", FetchRect((k - 1) % nx, (k - 1) \div nx), "tiff")]
      ELSE <<Request("mosaic", <<0, 0, req.width, req.height>>, "tiff")>>

MosaicRequests ==
    SelectSeq(requests, LAMBDA r : r.svc = "mosaic" /\ r.format = "tiff")

IsPrefix(p, q) == Len(p) <= Len(q) /\ \A i \in DOMAIN p : p[i] = q[i]

FetchOver == pc \in {"post", "tid_get", "tid_poll", "tid_tget", "build", "write"}
               \/ outcome = "finished"

\* C5: the mosaic is fetched in tiles iff tiling is enabled and an edge is
\* above tile_max_size, then with ceil(width/tile_max_size) x
\* ceil(height/tile_max_size) requests, one per tile, row by row; else with
\* one request for the whole canvas.
C5_TilePlan ==
    /\ IsPrefix(MosaicRequests, PlannedRequests)
    /\ FetchOver => MosaicRequests = PlannedRequests

C5_Witness ==
    /\ pc = "post"
    /\ CeilDiv(req.width, tile_max_size) >= 2
    /\ CeilDiv(req.height, tile_max_size) >= 2
    /\ Len(MosaicRequests) = CeilDiv(req.width, tile_max_size)
                               * CeilDiv(req.height, tile_max_size)

TileIndices == (0 .. tiles_x - 1) \X (0 .. tiles_y - 1)

\* C6: the cores of the planned tiles partition the canvas: every core
\* lies on the canvas and every pixel lies in the core of exactly one tile.
C6_CoresPartition ==
    /\ \A t \in TileIndices :
          LET c == CoreRect(t[1], t[2])
          IN  0 <= c[1] /\ c[1] < c[3] /\ c[3] <= req.width
                /\ 0 <= c[2] /\ c[2] < c[4] /\ c[4] <= req.height
    /\ \A g \in CellsOf(req.height, req.width) :
          Cardinality({t \in TileIndices : InRect(g, CoreRect(t[1], t[2]))}) = 1

C6_Witness ==
    /\ pc = "t_get"
    /\ tiles_x >= 2
    /\ tiles_y >= 2
    /\ req.width % tile_max_size # 0

\* An answer with no nodata cell: it decodes, has no gap, and none of its
\* values is the nodata it declares.
FullyValid(a) ==
    /\ a.kind \in OkKinds
    /\ a.gap = "none"
    /\ a.kind = "tiff" /\ env.nodata # None =>
          \A g \in CellsOf(req.height, req.width) :
              Terrain(g) + a.shift # env.nodata[1]

Tiled == req.use_tile_download
           /\ (req.width > tile_max_size \/ req.height > tile_max_size)

\* C7: after a tiled run whose tile answers are all fully valid, the canvas
\* has total_height x total_width cells and none of them is the sentinel.
C7_NoSeams ==
    /\ Tiled
    /\ \/ pc = "t_poll" /\ tile_y >= tiles_y
       \/ pc = "post"
    /\ \A i \in DOMAIN responses : FullyValid(responses[i])
    => /\ img_array.h = req.height
       /\ img_array.w = req.width
       /\ DOMAIN img_array.cells = CellsOf(req.height, req.width)
       /\ \A g \in DOMAIN img_array.cells : ~IsNaN(img_array.cells[g])

C7_Witness ==
    /\ Tiled
    /\ pc = "t_poll"
    /\ tile_y >= tiles_y
    /\ tiles_x >= 2
    /\ tiles_y >= 2
    /\ env.gaps
    /\ \A i \in DOMAIN responses : FullyValid(responses[i])

\* Whether a mode keeps a cell of classification code c.
Keeps(mode, c) ==
    CASE mode = "combined" -> TRUE
      [] mode = "bathymetry_only" -> c # 0
      [] mode = "land_only" -> c = 0
      [] mode = "direct_measurements_only" -> 10 <= c /\ c <= 20
      [] mode = "direct_unknown_measurements_only" ->
            (10 <= c /\ c <= 20) \/ c = 44 \/ c = 70

MaskedWhereApplied ==
    \A i \in DOMAIN files :
        LET f == files[i]
        IN  /\ req.tid_url
            /\ ~f.warped
            /\ req.output_requests # <<>> \/ f.mode \in {"combined", "bathymetry_only", "land_only"}
            => \A g \in DOMAIN f.cells :
                  f.cells[g] = IF Keeps(f.mode, CodeAt(g))
                                 THEN WriteCell(img_array.cells[g], f.nodata)
                                 ELSE f.nodata

TypedDecoded ==
    \E i \in DOMAIN responses :
        /\ requests[i].svc = "mosaic"
        /\ responses[i].kind = "tiff"

\* The element type of the first typed raster of an integer type decoded
\* for the mosaic, float32 when there is none.
FirstInteger ==
    LET ks == {k \in DOMAIN responses :
                  /\ requests[k].svc = "mosaic"
                  /\ responses[k].kind = "tiff"
                  /\ IsIntegerDType(DTypeOf(k))}
    IN  IF ks = {} THEN "float32"
        ELSE DTypeOf(CHOOSE k \in ks : \A j \in ks : k <= j)

RowMajor == [k \in 1 .. total_tiles |-> <<(k - 1) % tiles_x, (k - 1) \div tiles_x>>]
TileNumber(t) == t[2] * tiles_x + t[1] + 1

\* A grid of two tiles or more whose answers, one per tile, are typed
\* rasters with gaps and with values that differ from tile to tile, to be
\* applied in any order.
AssembleInit ==
    /\ \E w \in Edges, h \in Edges :
          /\ w * h > 1
          /\ req = [PlainRequest EXCEPT !.width = w, !.height = h]
    /\ env = [PlainService EXCEPT !.nodata = Some(-100), !.gaps = TRUE,
                                  !.shifts = TRUE]
    /\ order \in {o \in [1 .. total_tiles -> TileIndices] :
                    \A i, j \in 1 .. total_tiles : o[i] = o[j] => i = j}
    /\ responses \in [1 .. total_tiles ->
                        [kind : {"tiff"}, gap : {"none", "core"}, shift : Shifts]]
    /\ pc = "assemble"
    /\ outcome = "running"
    /\ cancelled = FALSE
    /\ preserve_int8 = FALSE
    /\ preserve_int16 = FALSE
    /\ img_array = Full(height, width, NaN, "float32")
    /\ source_nodata = None
    /\ tile_x = 0
    /\ tile_y = 0
    /\ tile_num = 0
    /\ tid_array = NoArray
    /\ arrays_to_write = <<>>
    /\ written_paths = <<>>
    /\ progress = <<>>
    /\ status = <<>>
    /\ errors = <<>>
    /\ finished = <<>>
    /\ requests = <<>>
    /\ files = <<>>

\* Lines 620-707 for the next tile of `order`: its answer decoded and placed.
AssemblePlace ==
    /\ pc = "assemble"
    /\ LET t == order[tile_num + 1]
           band == TileBandAt(t[1], t[2], responses[TileNumber(t)])
       IN  /\ tile_x' = t[1]
           /\ tile_y' = t[2]
           /\ source_nodata' = TiledNodata(env.nodata)
           /\ IF PlaceFits(t[1], t[2], band)
                THEN /\ img_array' = [img_array EXCEPT
                            !.cells = ApplyTile(@, t[1], t[2], band)]
                     /\ tile_num' = tile_num + 1
                     /\ pc' = IF tile_num' = total_tiles THEN "assembled" ELSE "assemble"
                     /\ UNCHANGED <<outcome, errors>>
                ELSE /\ Fail("tile")
                     /\ UNCHANGED <<img_array, tile_num>>
    /\ UNCHANGED <<req, env, order, cancelled, preserve_int8, preserve_int16,
                   tid_array, arrays_to_write, written_paths, progress, status,
                   finished, requests, responses, files>>

SpecAssemble == AssembleInit /\ [][AssemblePlace]_vars

\* The canvas after the first k tiles are applied row by row.
RECURSIVE InLoopOrder(_)
InLoopOrder(k) ==
    IF k = 0 THEN [g \in CellsOf(req.height, req.width) |-> NaN]
    ELSE LET t == RowMajor[k]
         IN  ApplyTile(InLoopOrder(k - 1), t[1], t[2],
                       TiledMasked(RasterBand(FetchRect(t[1], t[2]), CoreRect(t[1], t[2]),
                                              responses[k].gap, responses[k].shift),
                                   env.nodata))

TileOf(g) == <<g[2] \div tile_max_size, g[1] \div tile_max_size>>

\* The mosaic response that supplies cell g: the tile's in a tiled run, the
\* one response otherwise.
SupplierOf(g) == IF Tiled THEN responses[TileNumber(TileOf(g))] ELSE responses[1]

\* The value that response carries for cell g.
Served(g) ==
    LET a == SupplierOf(g)
        core == IF Tiled THEN CoreRect(TileOf(g)[1], TileOf(g)[2]) ELSE WholeRect
    IN  IF InGap(a.gap, g, core) THEN env.nodata[1] ELSE Terrain(g) + a.shift

\* The mosaic of this run came from typed rasters only and no mask of the
\* classification grid was laid on it.
RasterOnly ==
    /\ tid_array = NoArray
    /\ responses # <<>>
    /\ \A i \in DOMAIN responses : responses[i].kind \in {"tiff", "tiff_pil"}

\* C11: for a TID or GEBCO 2025 source whose responses declare nodata 0, a
\* cell whose value is 0 is written as 0, and 0 is not the file's nodata,
\* in the single-request and in the tiled path.
C11_ZeroStaysValid ==
    \A i \in DOMAIN files :
        LET f == files[i]
        IN  /\ req.source \in {"TID", "GEBCO2025"}
            /\ env.nodata = Some(0)
            /\ RasterOnly
            /\ ~f.warped
            => /\ f.nodata # 0
               /\ \A g \in DOMAIN f.cells : Served(g) = 0 => f.cells[g] = 0

C11_Witness ==
    /\ files # <<>>
    /\ req.source = "GEBCO2025"
    /\ env.nodata = Some(0)
    /\ env.dtype = "int16"
    /\ RasterOnly
    /\ Tiled
    /\ responses[1].kind = "tiff"
    /\ \E g \in DOMAIN files[1].cells : Served(g) = 0 /\ files[1].cells[g] = 0
    /\ \E g \in DOMAIN files[1].cells : Served(g) # 0

\* ------------------------------------------------ the cast of the writer
\* The largest value of an integer element type.
TypeMax(d) == IF d = "int8" THEN 127 ELSE 32767

\* C12: a write of an integer file leaves, on every cell of the buffer above
\* the type's range, the type's maximum, and on every cell that was NaN the
\* file's nodata value.
C12_SaturatesAndStamps ==
    [][pc = "write" /\ Len(files') = Len(files) + 1 =>
        LET out == Head(arrays_to_write)
            f == Last(files')
        IN  f.dtype \in {"int8", "int16"} =>
              \A g \in DOMAIN out.arr.cells :
                  /\ IsNaN(out.arr.cells[g]) => f.cells[g] = f.nodata
                  /\ ~IsNaN(out.arr.cells[g]) /\ out.arr.cells[g] > TypeMax(f.dtype)
                        => f.cells[g] = TypeMax(f.dtype)]_vars

C12_Witness ==
    /\ files # <<>>
    /\ files[1].dtype = "int8"
    /\ ~Tiled
    /\ Served(<<0, 0>>) = 500
    /\ files[1].cells[<<0, 0>>] = 127
    /\ Served(<<0, 1>>) = env.nodata[1]
    /\ files[1].cells[<<0, 1>>] = -128
    /\ files[1].nodata = -128

\* ------------------------------------------------ what the caller is told
\* Everything the caller receives from the run: the four signals.
Events == <<progress, status, errors, finished>>

\* C13: the step in which a run ends on the cancellation flag emits an event
\* to the caller, and that event is neither finished nor an error; a return
\* that emits nothing leaves the caller with what a run still running shows.
C13_CancelAcknowledged ==
    [][outcome = "running" /\ outcome' = "cancelled" =>
          /\ Events' # Events
          /\ errors' = errors
          /\ finished' = finished]_vars

\* C14: a run emits at most one error, and never an error and finished
\* both, whichever step failed.
C14_OneErrorNoFinished ==
    /\ Len(errors) <= 1
    /\ ~(errors # <<>> /\ finished # <<>>)
    /\ outcome = "error" <=> errors # <<>>

C14_Witness ==
    /\ outcome = "error"
    /\ errors = <<"tid">>
    /\ Tiled
    /\ Len(requests) > total_tiles + 1
    /\ finished = <<>>

\* ------------------------------------------------ the finished event
\* str.splitlines() of main.py, line 1431: the lines of s, cur being the
\* line begun.
RECURSIVE LinesFrom(_, _)
LinesFrom(s, cur) ==
    IF s = <<>> THEN IF cur = <<>> THEN <<>> ELSE <<cur>>
    ELSE IF Head(s) = NL THEN <<cur>> \o LinesFrom(Tail(s), <<>>)
    ELSE LinesFrom(Tail(s), Append(cur, Head(s)))

\* str.strip(): without the blanks at both ends.
RECURSIVE StripLeft(_)
StripLeft(s) == IF s # <<>> /\ Head(s) = " " THEN StripLeft(Tail(s)) ELSE s
RECURSIVE StripRight(_)
StripRight(s) ==
    IF s # <<>> /\ Last(s) = " " THEN StripRight(SubSeq(s, 1, Len(s) - 1)) ELSE s
Strip(s) == StripLeft(StripRight(s))

\* on_download_finished, lines 1431-1433: the paths the caller reads.
PathsRead(file_path) ==
    LET lines == LinesFrom(file_path, <<>>)
        paths == SelectSeq([i \in DOMAIN lines |-> Strip(lines[i])],
                           LAMBDA q : q # <<>>)
    IN  IF paths = <<>> THEN <<file_path>> ELSE paths

\* The destinations of the request, in its order.
Destinations ==
    IF req.output_requests # <<>>
      THEN [i \in DOMAIN req.output_requests |-> PathOf(i)]
      ELSE <<PathOf(0)>>

\* C15: finished is emitted at most once, when every output of the request
\* is on disk, and the caller reads in it the request's destinations in the
\* request's order.
C15_FinishedOnceWithPaths ==
    /\ Len(finished) <= 1
    /\ finished # <<>> =>
          /\ outcome = "finished"
          /\ arrays_to_write = <<>>
          /\ [i \in DOMAIN files |-> files[i].path] = Destinations
          /\ PathsRead(finished[1]) = Destinations

C15_Witness ==
    /\ Len(finished) = 1
    /\ Len(req.output_requests) = 3
    /\ Len(files) = 3
    /\ finished[1] = <<"f", "1", NL, "f", "2", NL, "f", "3">>

\* C16: a call of cancel() leaves the flag set, a call with the flag set
\* changes nothing, and no step of the run clears the flag.
C16_CancelIdempotentMonotone ==
    [][/\ Cancel => cancelled'
       /\ cancelled /\ Cancel => UNCHANGED vars
       /\ cancelled => cancelled']_vars

C16_Witness ==
    /\ cancelled
    /\ outcome = "finished"
    /\ Len(files) >= 2

\* ------------------------------------------------ overlap margins
\* The tiles whose fetch rectangle (core and margin) holds cell g.
Covering(g) == {t \in TileIndices : InRect(g, FetchRect(t[1], t[2]))}

\* What the response of tile t holds for cell g, NaN where it holds the
\* nodata the run masks.
Contribution(t, g) ==
    LET a == responses[TileNumber(t)]
        v == IF InGap(a.gap, g, CoreRect(t[1], t[2]))
               THEN env.nodata[1] ELSE Terrain(g) + a.shift
    IN  IF source_nodata # None /\ source_nodata[1] # 0 /\ v = source_nodata[1]
          THEN NaN ELSE v

AssemblyOver == Tiled /\ pc = "t_poll" /\ tile_y >= tiles_y

\* C17: after the assembly, a cell in the fetch rectangles of two tiles
\* holds the mean of their values when both are valid there, the valid one
\* when one is, from a core or from a margin, and NaN when neither is.
C17_BestOfContributions ==
    /\ AssemblyOver
    /\ \A i \in DOMAIN responses : responses[i].kind = "tiff"
    => \A g \in DOMAIN img_array.cells :
          Cardinality(Covering(g)) = 2 =>
              LET valid == {t \in Covering(g) : ~IsNaN(Contribution(t, g))}
              IN  CASE Cardinality(valid) = 2 ->
                         \E t1, t2 \in valid :
                            /\ t1 # t2
                            /\ img_array.cells[g] =
                                  (Contribution(t1, g) + Contribution(t2, g)) \div 2
                    [] Cardinality(valid) = 1 ->
                         \E t \in valid : img_array.cells[g] = Contribution(t, g)
                    [] OTHER -> IsNaN(img_array.cells[g])

\* ------------------------------------------------ decoding fallbacks
\* A mosaic request with format tiff whose answer no decoder read.
Undecoded(i) ==
    /\ i \in DOMAIN responses
    /\ requests[i].svc = "mosaic"
    /\ requests[i].format = "tiff"
    /\ responses[i].kind = "undecodable"

\* C18: in single-request and in tiled runs, a response that neither the
\* typed-raster decoder nor the image decoder reads is followed by one retry
\* of the same request with format png, and the run does not fail before
\* the retry is answered.
C18_RetryAfterUndecodable ==
    \A i \in DOMAIN requests :
        Undecoded(i) =>
            /\ Len(requests) > i
            /\ requests[i + 1] = [requests[i] EXCEPT !.format = "png"]
            /\ Len(responses) = i => outcome # "error"

\* ------------------------------------------------ no retry of a failure
\* The requests of the run for the same region of the same service as
\* request i.
SameRegion(i) ==
    {j \in DOMAIN requests :
        requests[j].svc = requests[i].svc /\ requests[j].rect = requests[i].rect}

\* C19: after an answer of status 500, of another error status or of no
\* answer at all, the run emits its error and issues no request any more;
\* and a region is requested once, or twice when the first answer was not
\* decoded and the second request is the retry with format png.
C19_NoRetryOfFailure ==
    /\ \A i \in DOMAIN responses :
          responses[i].kind \in {"http500", "http_error", "network_error"} =>
              /\ i = Len(requests)
              /\ outcome = "error"
              /\ Len(errors) = 1
    /\ \A i \in DOMAIN requests :
          \/ SameRegion(i) = {i}
          \/ \E j \in DOMAIN requests :
                /\ SameRegion(i) = {j, j + 1}
                /\ responses[j].kind = "undecodable"
                /\ requests[j + 1].format = "png"

C19_Witness ==
    /\ outcome = "error"
    /\ Len(requests) = 2
    /\ responses[1].kind = "undecodable"
    /\ responses[2].kind = "network_error"
    /\ SameRegion(1) = {1, 2}

\* ------------------------------------------------ polls of the flag
\* C20: a step of the run that begins with the cancellation flag set issues
\* no network request, builds no masked or reprojected array and writes no
\* file.
C20_PolledBeforeEveryStep ==
    [][cancelled =>
          /\ requests' = requests
          /\ arrays_to_write' = arrays_to_write
          /\ files' = files]_vars

\* The same for the requests of tiles and of the classification grid and
\* for the writes, which the run does poll before.
PolledWhereCodePolls ==
    [][cancelled /\ pc \in {"s_poll", "t_poll", "post", "tid_poll", "write"} =>
          /\ requests' = requests
          /\ arrays_to_write' = arrays_to_write
          /\ files' = files]_vars

\* ------------------------------------------------ the order of the stages
\* The stage run() stands in: planning, fetching and assembling the mosaic,
\* the classification grid, masking and reprojecting, writing, done.
StageOf(p) ==
    CASE p = "run" -> 0
      [] p \in {"s_poll", "s_get", "s_retry", "t_poll", "t_get"} -> 1
      [] p \in {"post", "tid_get", "tid_poll", "tid_tget"} -> 2
      [] p = "build" -> 3
      [] p = "write" -> 4
      [] OTHER -> 5

\* C21: the stages never go backward: no mosaic request follows a request
\* for the classification grid, no request is issued once masking and
\* reprojection or the writes have begun, and once a file is written the
\* arrays to write only get fewer.
C21_StagesInOrder ==
    [][/\ StageOf(pc') >= StageOf(pc)
       /\ \A i \in DOMAIN requests' :
             requests'[i].svc = "mosaic" /\ i \notin DOMAIN requests =>
                 \A j \in DOMAIN requests : requests[j].svc = "mosaic"
       /\ StageOf(pc) >= 3 => requests' = requests
       /\ files # <<>> =>
             \/ arrays_to_write' = arrays_to_write
             \/ /\ arrays_to_write # <<>>
                /\ arrays_to_write' = Tail(arrays_to_write)]_vars

C21_Witness ==
    /\ outcome = "finished"
    /\ Tiled
    /\ req.reproject
    /\ Len(files) = 2
    /\ \E i \in DOMAIN requests : requests[i].svc = "tid"
    /\ tid_array # NoArray

\* ------------------------------------------- the bbox of every request
\* The world Y range of the pixel rows [r0, r1), measured down from ymax.
RowsDown(r0, r1) == <<bbox[4] - r1 * pixel_size_y, bbox[4] - r0 * pixel_size_y>>

\* C22: every request carries a bbox (xmin, ymin, xmax, ymax) with
\* xmin < xmax and ymin < ymax, inside the bounding box of the run, whose Y
\* range is that of its pixel rows measured down from ymax.
C22_BBoxOrdered ==
    \A i \in DOMAIN requests :
        LET b == requests[i].bbox
            r == requests[i].rect
        IN  /\ b[1] < b[3]
            /\ b[2] < b[4]
            /\ bbox[1] <= b[1] /\ b[3] <= bbox[3]
            /\ bbox[2] <= b[2] /\ b[4] <= bbox[4]
            /\ <<b[2], b[4]>> = RowsDown(r[2], r[4])

\* ------------------------------------------------ the declared nodata
\* The value the response of tile t holds for cell g, as the service sent it.
Held(t, g) ==
    LET a == responses[TileNumber(t)]
    IN  IF InGap(a.gap, g, CoreRect(t[1], t[2]))
          THEN env.nodata[1] ELSE Terrain(g) + a.shift

\* Every response that holds cell g holds the declared nodata there.
DeclaredAt(g) ==
    IF Tiled THEN \A t \in Covering(g) : Held(t, g) = env.nodata[1]
             ELSE Served(g) = env.nodata[1]

\* The declared nodata is 0 and 0 is a value of the source.
ZeroIsValid == env.nodata = Some(0) /\ req.source \in {"TID", "GEBCO2025"}

\* C23: once the mosaic is decoded from typed rasters that declare a nodata
\* value, every cell that holds it is NaN, unless the value is 0 and 0 is
\* valid for the source; so for another source that declares 0 the cells
\* equal to 0 are NaN, in the single-request and in the tiled path alike.
C23_DeclaredNodataMasked ==
    /\ IF Tiled THEN AssemblyOver ELSE pc = "post"
    /\ env.nodata # None
    /\ ~ZeroIsValid
    /\ \A i \in DOMAIN responses : responses[i].kind = "tiff"
    => \A g \in DOMAIN img_array.cells : DeclaredAt(g) => IsNaN(img_array.cells[g])

\* ------------------------------------------- the fetch rectangle
\* The requests of a tiled run for its tiles, as <<tile, core, request>>.
TileFetches ==
    {<<RowMajor[i], CoreRect(RowMajor[i][1], RowMajor[i][2]), requests[i]>> :
        i \in {k \in DOMAIN requests : Tiled /\ requests[k].svc = "mosaic"}}

\* The fetch rectangle f holds the core c and lies on the canvas, and the
\* request asks for its width x height.
CoreInFetchOnCanvas(c, f, size) ==
    /\ 0 <= f[1] /\ f[1] <= c[1] /\ c[3] <= f[3] /\ f[3] <= req.width
    /\ 0 <= f[2] /\ f[2] <= c[2] /\ c[4] <= f[4] /\ f[4] <= req.height
    /\ size = <<f[3] - f[1], f[4] - f[2]>>

\* C24 as stated: the fetch rectangle extends beyond the core by
\* tile_overlap pixels toward every neighbouring tile and by 0 pixels at a
\* canvas edge.
C24_MarginTowardEveryNeighbour ==
    \A x \in TileFetches :
        LET t == x[1]
            c == x[2]
            f == x[3].rect
        IN  /\ CoreInFetchOnCanvas(c, f, x[3].size)
            /\ c[1] - f[1] = IF t[1] > 0 THEN tile_overlap ELSE 0
            /\ c[2] - f[2] = IF t[2] > 0 THEN tile_overlap ELSE 0
            /\ f[3] - c[3] = IF t[1] < tiles_x - 1 THEN tile_overlap ELSE 0
            /\ f[4] - c[4] = IF t[2] < tiles_y - 1 THEN tile_overlap ELSE 0

\* C24: the fetch rectangle of every tile is its core extended by
\* tile_overlap pixels on each side and then cut to the canvas: it holds the
\* core, lies on the canvas, extends beyond the core on each side by
\* tile_overlap pixels or by what is left of the canvas on that side when
\* that is less, and the request asks for its width x height.
C24_MarginCutToCanvas ==
    \A x \in TileFetches :
        LET c == x[2]
            f == x[3].rect
        IN  /\ CoreInFetchOnCanvas(c, f, x[3].size)
            /\ c[1] - f[1] = Min(tile_overlap, c[1])
            /\ c[2] - f[2] = Min(tile_overlap, c[2])
            /\ f[3] - c[3] = Min(tile_overlap, req.width - c[3])
            /\ f[4] - c[4] = Min(tile_overlap, req.height - c[4])

\* A tile with a neighbour narrower than the margin has been requested, and
\* so has one whose margin toward a neighbour is whole.
C24_Witness ==
    /\ \E x \in TileFetches :
          /\ x[1][1] < tiles_x - 1
          /\ x[3].rect[3] - x[2][3] < tile_overlap
          /\ x[3].rect[3] = req.width
    /\ \E x \in TileFetches :
          /\ x[1][2] < tiles_y - 1
          /\ x[3].rect[4] - x[2][4] = tile_overlap

\* ------------------------------------- one classification grid per run
GridRequests == SelectSeq(requests, LAMBDA r : r.svc = "tid")

\* The run lists a masked mode: in output_requests, or as its one mode.
ListsMasked ==
    IF req.output_requests # <<>>
      THEN \E i \in DOMAIN req.output_requests : req.output_requests[i] \in MaskedModes
      ELSE req.download_mode \in MaskedModes

\* The cells of the mosaic that the mask of `mode` drops, by the grid g.
Dropped(mode, grid) == {g \in DOMAIN grid.cells : ~MaskKeep(mode, grid.cells[g])}

\* In every state: the grid is requested only when a masked mode is listed,
\* no region of it twice, and the masked outputs are the mosaic without the
\* cells the grid of the run names.
GridOnceForMasks ==
    /\ GridRequests # <<>> => ListsMasked
    /\ \A i, j \in DOMAIN GridRequests :
          i # j => GridRequests[i].rect # GridRequests[j].rect
    /\ Len(GridRequests) <= IF TidSingle THEN 1 ELSE total_tiles
    /\ pc = "write" /\ tid_array # NoArray =>
          \A i \in DOMAIN arrays_to_write :
              LET o == arrays_to_write[i]
              IN  o.mode \in MaskedModes =>
                    \A g \in DOMAIN o.arr.cells :
                       o.arr.cells[g] =
                          IF g \in Dropped(o.mode, tid_array)
                            THEN NaN ELSE img_array.cells[g]

\* In every step: the grid is not replaced once the arrays are built.
GridKept == pc \in {"build", "write"} => tid_array' = tid_array

GridFetched == pc \in {"build", "write"} /\ tid_array # NoArray

\* C26: the classification grid is fetched over the extent and the size of
\* the mosaic with the tiling decision of the mosaic: in one request when
\* the mosaic was fetched in one request, in tiles when it was fetched in
\* tiles, one tile of the grid for each tile of the mosaic.
C26_GridTiledAsMosaic ==
    GridFetched =>
        /\ tid_array.h = img_array.h /\ tid_array.w = img_array.w
        /\ Len(GridRequests) = Len(MosaicRequests)
        /\ Len(GridRequests) = 1 => GridRequests[1].bbox = MosaicRequests[1].bbox

\* ------------------------------------------------ the end of every run
\* The run has returned with its one terminal signal, or with none because
\* it saw the cancellation flag.
EndedProperly ==
    pc = "done" =>
        /\ outcome \in {"finished", "error", "cancelled"}
        /\ outcome = "finished" => Len(finished) = 1 /\ errors = <<>>
        /\ outcome = "error" => Len(errors) = 1 /\ finished = <<>>
        /\ outcome = "cancelled" => cancelled /\ errors = <<>> /\ finished = <<>>
        /\ ~cancelled => Len(finished) + Len(errors) = 1

\* C27: every run ends; when it has ended it has emitted exactly one of
\* finished and error, or neither if it returned on seeing the cancellation
\* flag, and it emits nothing any more; a run whose flag was never set has
\* emitted one of the two.
C27_EndsWithOneTerminalSignal ==
    /\ <>(pc = "done")
    /\ []EndedProperly
    /\ [][pc = "done" => Events' = Events]_vars

C27_Witness ==
    /\ pc = "done"
    /\ outcome = "cancelled"
    /\ Len(requests) >= 2
    /\ progress # <<>>
    /\ errors = <<>>
    /\ finished = <<>>

\* ------------------------------------------- the two flags of the type
\* In every step: a flag that is set stays set and the other stays unset.
FlagsKept ==
    /\ preserve_int8 => preserve_int8' /\ ~preserve_int16'
    /\ preserve_int16 => preserve_int16' /\ ~preserve_int8'

\* C28: _preserve_int8 and _preserve_int16 are never both set, and a flag
\* that is set, by __init__ or by the first typed raster of an integer
\* type, stays set and the other unset to the end of the run, whatever the
\* element type of the rasters that follow.
C28_FlagsExclusiveAndKept ==
    /\ [](~(preserve_int8 /\ preserve_int16))
    /\ [][FlagsKept]_vars

\* The first tile set a flag and a raster of the other integer type followed.
C28_Witness ==
    /\ req.source = "other"
    /\ Tiled
    /\ Len(responses) = 2
    /\ responses[1].kind = "tiff" /\ responses[2].kind = "tiff"
    /\ DTypeOf(1) = "int8" /\ DTypeOf(2) = "int16"
    /\ preserve_int8
    /\ ~preserve_int16

\* ------------------------------------------- values at the type's minimum
\* The smallest value of an integer element type.
TypeMin(d) == IF d = "int8" THEN -128 ELSE -32768

\* Every answer of the run is a raster without gaps that holds the values of
\* the service as they are.
Unaltered ==
    /\ RasterOnly
    /\ \A i \in DOMAIN responses : responses[i].gap = "none" /\ responses[i].shift = 0

\* C29: in a file of an integer type, a valid cell of value v holds v cut
\* to the range of the type; so a valid v at or below the minimum is written
\* as the minimum, which is the nodata value of the file, and a valid v
\* above the minimum is written as a value that is not the nodata value.
C29_MinimumIsNodata ==
    \A i \in DOMAIN files :
        LET f == files[i]
            lo == TypeMin(f.dtype)
            hi == TypeMax(f.dtype)
        IN  f.dtype \in {"int8", "int16"} /\ Unaltered /\ ~f.warped =>
              /\ f.nodata = lo
              /\ \A g \in DOMAIN f.cells :
                    LET v == Terrain(g)
                    IN  env.nodata = None \/ v # env.nodata[1] =>
                          /\ f.cells[g] = Max(lo, Min(hi, v))
                          /\ v <= lo => f.cells[g] = f.nodata
                          /\ v > lo => f.cells[g] # f.nodata

C29_Witness ==
    /\ files # <<>>
    /\ Unaltered
    /\ files[1].dtype = "int8"
    /\ \E g \in DOMAIN files[1].cells :
          Terrain(g) < -128 /\ Terrain(g) # env.nodata[1] /\ files[1].cells[g] = -128
    /\ \E g \in DOMAIN files[1].cells :
          Terrain(g) = -128 /\ files[1].cells[g] = files[1].nodata
    /\ \E g \in DOMAIN files[1].cells :
          Terrain(g) > -128 /\ files[1].cells[g] = Terrain(g)

\* ------------------------------------ masked modes without a service
\* The buffer of an output of `mode`: the mosaic, without the cells its own
\* mask drops when the run holds a classification grid.
OwnBuffer(mode) ==
    [g \in DOMAIN img_array.cells |->
        IF mode \in MaskedModes /\ tid_array # NoArray
              /\ g \in Dropped(mode, tid_array)
          THEN NaN ELSE img_array.cells[g]]

\* In every state: without a classification service no grid is requested
\* and none is held; every buffer to write is that of its own mode, the
\* mosaic itself when there is no grid; and a file written without a grid
\* holds the cells the unmasked mosaic is written with.
NoServiceNoMask ==
    /\ ~req.tid_url => GridRequests = <<>> /\ tid_array = NoArray
    /\ pc = "write" =>
          \A i \in DOMAIN arrays_to_write :
              arrays_to_write[i].arr.cells = OwnBuffer(arrays_to_write[i].mode)
    /\ ~req.tid_url =>
          \A i \in DOMAIN files :
              files[i].cells = [g \in DOMAIN img_array.cells |->
                                   WriteCell(img_array.cells[g], files[i].nodata)]

\* In every step: without a classification service the run goes from the
\* mosaic to the build with no request and no error, and the mosaic is not
\* changed while the outputs are built and written.
NoServiceNoError ==
    /\ pc = "post" /\ ~cancelled /\ img_array # NoArray /\ ~req.tid_url /\ pc' # pc =>
          pc' = "build" /\ errors' = errors /\ requests' = requests
    /\ pc \in {"build", "write"} => img_array' = img_array

\* C30: a run that lists a masked mode and has no classification service
\* requests no grid, emits no error for it and writes for that mode what it
\* writes for the unmasked mosaic; and the buffer of an output holds the
\* mask of its own mode only, never that of another output of the run.
C30_NoServiceNoMaskOwnBuffers == []NoServiceNoMask /\ [][NoServiceNoError]_vars

C30_Witness ==
    /\ outcome = "finished"
    /\ ~req.tid_url
    /\ req.output_requests = <<"combined", "land_only">>
    /\ Len(files) = 2
    /\ files[1].cells = files[2].cells
    /\ \A i \in DOMAIN requests : requests[i].svc = "mosaic"
    /\ errors = <<>>

=============================================================================
